---------------------------- MODULE Spec2Model ----------------------------
(***************************************************************************)
(* Model of roocodez/tools/apply_diff.py: the apply_diff tool.             *)
(*                                                                         *)
(* Text is modelled as a sequence of characters (one-character strings),   *)
(* a file system as a function from paths to files (or Absent), and one    *)
(* call of apply_diff_function as a small process whose steps are the      *)
(* places where it touches the file system.                                *)
(***************************************************************************)
EXTENDS Integers, Sequences, FiniteSets, TLC

VARIABLES
    fs,               \* [Paths -> Absent or File(text)]: the files on disk
    fs0,              \* the file system when the calls were made (history)
    pc,               \* [Calls -> step of apply_diff_function]
    path,             \* [Calls -> path argument]
    diff,             \* [Calls -> diff argument (text)]
    start_line,       \* [Calls -> start_line argument (NoLine or SomeLine(n))]
    patch,            \* [Calls -> the hunks the diff text was rendered from (history)]
    processed_diff,   \* [Calls -> local processed_diff]
    original_content, \* [Calls -> local original_content]
    diff_result,      \* [Calls -> local diff_result (DiffApplicationResult)]
    handle,           \* [Calls -> the mode of the file handle the call holds, or None]
    report,           \* [Calls -> the string returned, by its template]
    trace,            \* [Calls -> the steps the call has taken, in order (history)]
    returned,         \* [Calls -> the calls that had returned when it began (history)]
    lx_pc,            \* line-index exploration: step
    lx_text,          \* line-index exploration: the content
    lx_lines,         \* line-index exploration: content.splitlines(keepends=True)
    lx_joined,        \* line-index exploration: "".join(lines)
    ue_pc,            \* unescape_html_entities_mock: step
    ue_text,          \* unescape_html_entities_mock: the text argument
    ue_out,           \* unescape_html_entities_mock: the text returned
    wf_pc,            \* write_to_file_tool_func: step
    wf_path,          \* write_to_file_tool_func: path argument
    wf_content,       \* write_to_file_tool_func: content (argument, then local)
    wf_line_count,    \* write_to_file_tool_func: line_count argument
    wf_fs,            \* write_to_file_tool_func: the directories and files on disk
    wf_fs0,           \* the same when the call was made (history)
    wf_report,        \* write_to_file_tool_func: the string returned, by its template
    mcp_pc,           \* use_mcp_tool_function: step
    tool_name,        \* use_mcp_tool_function: tool_name argument
    arguments,        \* use_mcp_tool_function: arguments argument (Optional[str])
    parsed_arguments, \* use_mcp_tool_function: local parsed_arguments
    tool_result,      \* use_mcp_tool_function: local tool_result
    mcp_calls,        \* the number of times call_mcp_tool_stub was entered (history)
    mcp_report,       \* use_mcp_tool_function: the string returned, by its template
    td_pc,            \* update_todo_list_tool_py: step
    td_round,         \* which call this is: on the input, or on the first call's output
    todos,            \* update_todo_list_tool_py: todos argument
    normalized_todos, \* update_todo_list_tool_py: local normalized_todos
    updated_md,       \* update_todo_list_tool_py: local updated_md
    td_report,        \* update_todo_list_tool_py: the string returned, by its template
    td_first,         \* what the call on the input was given and made (history)
    ac_pc,            \* attempt_completion_function: step
    result,           \* attempt_completion_function: result argument
    command,          \* attempt_completion_function: command argument (Optional[str])
    ac_captured,      \* the number of times capture_task_completed_stub was entered
    ac_report,        \* attempt_completion_function: the string returned, by its template
    fi_pc,            \* fetch_instructions_tool_func: step
    task,             \* fetch_instructions_tool_func: task argument
    fi_content,       \* fetch_instructions_tool_func: local content
    fi_report         \* fetch_instructions_tool_func: the string returned

vars == <<fs, fs0, pc, path, diff, start_line, patch, processed_diff,
          original_content, diff_result, handle, report, trace, returned,
          lx_pc, lx_text, lx_lines, lx_joined,
          ue_pc, ue_text, ue_out,
          wf_pc, wf_path, wf_content, wf_line_count, wf_fs, wf_fs0, wf_report,
          mcp_pc, tool_name, arguments, parsed_arguments, tool_result, mcp_calls,
          mcp_report,
          td_pc, td_round, todos, normalized_todos, updated_md, td_report, td_first,
          ac_pc, result, command, ac_captured, ac_report,
          fi_pc, task, fi_content, fi_report>>

callVars == <<fs, fs0, pc, path, diff, start_line, patch, processed_diff,
              original_content, diff_result, handle, report, trace, returned>>

lxVars == <<lx_pc, lx_text, lx_lines, lx_joined>>

ueVars == <<ue_pc, ue_text, ue_out>>

wfVars == <<wf_pc, wf_path, wf_content, wf_line_count, wf_fs, wf_fs0, wf_report>>

mcpVars == <<mcp_pc, tool_name, arguments, parsed_arguments, tool_result, mcp_calls,
            mcp_report>>

tdVars == <<td_pc, td_round, todos, normalized_todos, updated_md, td_report, td_first>>

acVars == <<ac_pc, result, command, ac_captured, ac_report>>

fiVars == <<fi_pc, task, fi_content, fi_report>>

\* The variables of the tools other than apply_diff.
toolVars == <<ueVars, wfVars, mcpVars, tdVars, acVars, fiVars>>

-----------------------------------------------------------------------------
(* Values *)

None == "None"

\* Optional[int]: the empty tuple is None, <<n>> is the integer n.
NoLine == <<>>
SomeLine(n) == <<n>>

\* A path of the file system: absent, or a file holding `data`.
Absent == [exists |-> FALSE, data |-> <<>>]
File(data) == [exists |-> TRUE, data |-> data]

LF == "\n"
CR == "\r"
FF == "\f"
\* A lone surrogate code point: a str may hold it, UTF-8 cannot encode it.
Surr == "U+D800"

\* The line boundaries of str.splitlines that occur in the model's alphabet
\* (the vertical tab, the separators 0x1c-0x1e, NEL, LS and PS split like FF).
LineBreaks == {LF, CR, FF}

\* Whitespace removed by str.strip().
Whitespace == {" ", "\t", LF, CR, FF}

-----------------------------------------------------------------------------
(* Bounds *)

\* Longest text enumerated exhaustively by the line-index exploration.
MaxLen == 4
\* Largest start_line argument tried (from 0, one below the first line).
MaxStartLine == 5
\* Largest search window the matcher claims are tried with.
MaxWindow == 2
\* Most pieces a text given to unescape_html_entities_mock is made of.
MaxUeTokens == 3
\* Most pieces a todos text given to update_todo_list_tool_py is made of.
MaxTodoPieces == 4
\* Most pieces a result or a command given to attempt_completion_function is made of.
MaxAcPieces == 2
\* Most pieces a task name given to fetch_instructions_tool_func is made of.
MaxTaskPieces == 2
\* Most pieces an arguments string given to use_mcp_tool_function is made of.
MaxArgPieces == 4

-----------------------------------------------------------------------------
(* Text helpers *)

RECURSIVE Concat(_)
\* "".join(lines)
Concat(ls) == IF ls = <<>> THEN <<>> ELSE Head(ls) \o Concat(Tail(ls))

\* Length of the first line of a non-empty text, terminator included.
FirstLineLen(s) ==
    LET brk == {i \in 1..Len(s) : s[i] \in LineBreaks}
    IN  IF brk = {} THEN Len(s)
        ELSE LET i == CHOOSE j \in brk : \A k \in brk : j <= k
             IN  IF s[i] = CR /\ i < Len(s) /\ s[i + 1] = LF THEN i + 1 ELSE i

RECURSIVE SplitLinesDropEnds(_)
\* str.splitlines() without keepends: the terminators are dropped.
SplitLinesDropEnds(s) ==
    IF s = <<>> THEN <<>>
    ELSE LET n == FirstLineLen(s)
             m == IF s[n] \in LineBreaks
                  THEN (IF n > 1 /\ s[n] = LF /\ s[n - 1] = CR THEN n - 2 ELSE n - 1)
                  ELSE n
         IN  <<SubSeq(s, 1, m)>> \o SplitLinesDropEnds(SubSeq(s, n + 1, Len(s)))

RECURSIVE SplitLines(_)
\* str.splitlines(keepends=True)
SplitLines(s) ==
    IF s = <<>> THEN <<>>
    ELSE LET n == FirstLineLen(s)
         IN  <<SubSeq(s, 1, n)>> \o SplitLines(SubSeq(s, n + 1, Len(s)))

RECURSIVE ReplaceAll(_, _, _)
\* str.replace(pat, rep): left to right, non-overlapping occurrences.
ReplaceAll(s, pat, rep) ==
    IF Len(s) < Len(pat) THEN s
    ELSE IF SubSeq(s, 1, Len(pat)) = pat
         THEN rep \o ReplaceAll(SubSeq(s, Len(pat) + 1, Len(s)), pat, rep)
         ELSE <<Head(s)>> \o ReplaceAll(Tail(s), pat, rep)

\* unescape_html_entities_mock: five replace passes, in this order.
unescape_html_entities_mock(text) ==
    LET t1 == ReplaceAll(text, <<"&", "l", "t", ";">>, <<"<">>)
        t2 == ReplaceAll(t1, <<"&", "g", "t", ";">>, <<">">>)
        t3 == ReplaceAll(t2, <<"&", "a", "m", "p", ";">>, <<"&">>)
        t4 == ReplaceAll(t3, <<"&", "q", "u", "o", "t", ";">>, <<"\"">>)
    IN  ReplaceAll(t4, <<"&", "#", "3", "9", ";">>, <<"'">>)

\* open(..., 'r') with the default newline=None: "\r\n" and "\r" are read as "\n".
UniversalNewlines(s) == ReplaceAll(ReplaceAll(s, <<CR, LF>>, <<LF>>), <<CR>>, <<LF>>)

\* Whether f.write(text) can encode the text as UTF-8.
Encodable(text) == \A i \in 1..Len(text) : text[i] # Surr

\* The file after a handle at offset 0 wrote `new` over `old`.
WriteAt0(old, new) == new \o SubSeq(old, Len(new) + 1, Len(old))

RECURSIVE Strip(_)
\* str.strip(): the text without its leading and trailing whitespace.
Strip(l) ==
    IF l = <<>> THEN l
    ELSE IF Head(l) \in Whitespace THEN Strip(Tail(l))
    ELSE IF l[Len(l)] \in Whitespace THEN Strip(SubSeq(l, 1, Len(l) - 1))
    ELSE l

\* str.startswith(pre) and str.endswith(suf)
StartsWith(s, pre) == Len(pre) <= Len(s) /\ SubSeq(s, 1, Len(pre)) = pre
EndsWith(s, suf) ==
    Len(suf) <= Len(s) /\ SubSeq(s, Len(s) - Len(suf) + 1, Len(s)) = suf

RECURSIVE SplitOn(_, _)
\* str.split(ch): the pieces between the occurrences of ch, empty ones kept.
SplitOn(s, ch) ==
    LET at == {i \in 1..Len(s) : s[i] = ch}
    IN  IF at = {} THEN <<s>>
        ELSE LET i == CHOOSE j \in at : \A k \in at : j <= k
             IN  <<SubSeq(s, 1, i - 1)>> \o SplitOn(SubSeq(s, i + 1, Len(s)), ch)

RECURSIVE JoinWith(_, _)
\* ch.join(pieces)
JoinWith(ls, ch) ==
    IF ls = <<>> THEN <<>>
    ELSE IF Len(ls) = 1 THEN ls[1]
    ELSE ls[1] \o <<ch>> \o JoinWith(Tail(ls), ch)
-----------------------------------------------------------------------------
(* apply_diff_stub *)

\* DiffApplicationResult(success, content, error, details); fail_parts is
\* always the empty list and is left out. A content of None is the empty text
\* here: the content is read only when success is set.
DiffApplicationResult(success, content, error) ==
    [success |-> success, content |-> content, error |-> error, details |-> None]

\* The bounds test of the stub with its upper end off by one (a plausible slip).
StartIdxInBoundsStrict(start_idx, original_lines) ==
    0 <= start_idx /\ start_idx < Len(original_lines)

\* 0 <= start_idx <= len(original_lines)
StartIdxInBounds(start_idx, original_lines) ==
    0 <= start_idx /\ start_idx <= Len(original_lines)

\* The stub returning the lines it assembles: the original lines before
\* start_idx followed by the lines of diff_content.
apply_diff_stub_joined(original, diff_content, start) ==
    LET original_lines == SplitLines(original)
        new_lines == SplitLines(diff_content)
    IN  IF start = NoLine
        THEN DiffApplicationResult(FALSE, <<>>, "start_line is required")
        ELSE IF ~StartIdxInBounds(start[1] - 1, original_lines)
        THEN DiffApplicationResult(FALSE, <<>>, "Invalid start_line")
        ELSE DiffApplicationResult(TRUE,
                 Concat(SubSeq(original_lines, 1, start[1] - 1) \o new_lines), None)

\* The stub also assembles result_lines = original_lines[:start_idx] + new_lines
\* (lines 91-93) and never uses them: what it returns is diff_content.
apply_diff_stub(original, diff_content, start) ==
    LET original_lines == SplitLines(original)
        new_lines == SplitLines(diff_content)
    IN  IF start = NoLine
        THEN DiffApplicationResult(FALSE, <<>>, "start_line is required")
        ELSE IF ~StartIdxInBounds(start[1] - 1, original_lines)
        THEN DiffApplicationResult(FALSE, <<>>, "Invalid start_line")
        ELSE DiffApplicationResult(TRUE, diff_content, None)
-----------------------------------------------------------------------------
(* Inputs *)

Calls == {1, 2}
Paths == {"p1", "p2"}

T_empty == <<>>
T_abc == <<"a", LF, "b", LF, "c", LF>>
T_aXc == <<"a", LF, "X", LF, "c", LF>>
T_abc_noeol == <<"a", LF, "b", LF, "c">>
T_crlf == <<"a", CR, LF, "b", CR, LF>>
T_bab == <<"b", LF, "a", LF, "b", LF>>

Originals == {T_empty, T_abc, T_aXc, T_abc_noeol, T_crlf, T_bab}

\* A hunk: the declared source_start (NoLine when the patch has no header)
\* and the body lines in order, each a marker ("-", "+" or " ") and a line.
Hunk(start, body) == [start |-> start, body |-> body]

Digit(n) == <<"0", "1", "2", "3", "4", "5", "6", "7", "8", "9">>[n + 1]

Marked(body, markers) == SelectSeq(body, LAMBDA e : e[1] \in markers)

\* "@@ -start,count +start,count @@" and the end of the line.
HunkHeader(h) ==
    <<"@", "@", " ", "-", Digit(h.start[1]), ",", Digit(Len(Marked(h.body, {"-", " "}))),
      " ", "+", Digit(h.start[1]), ",", Digit(Len(Marked(h.body, {"+", " "}))),
      " ", "@", "@", LF>>

RECURSIVE BodyText(_)
BodyText(body) ==
    IF body = <<>> THEN <<>>
    ELSE <<Head(body)[1]>> \o Head(body)[2] \o BodyText(Tail(body))

RECURSIVE HunksText(_)
\* The patch text of a sequence of hunks.
HunksText(hunks) ==
    IF hunks = <<>> THEN <<>>
    ELSE (IF Head(hunks).start = NoLine THEN <<>> ELSE HunkHeader(Head(hunks)))
         \o BodyText(Head(hunks).body) \o HunksText(Tail(hunks))

\* No hunks: the empty patch text.
P_empty == <<>>
\* One hunk without a header: remove "b", insert "B".
P_bB == <<Hunk(NoLine, << <<"-", <<"b", LF>> >>, <<"+", <<"B", LF>> >> >>)>>
\* The same hunk with two spaces before the b it expects.
P_fuzzy == <<Hunk(NoLine, << <<"-", <<" ", " ", "b", LF>> >>, <<"+", <<"B", LF>> >> >>)>>
\* Two hunks on lines 1 and 3.
P_two == <<Hunk(SomeLine(1), << <<"-", <<"a", LF>> >>, <<"+", <<"A", LF>> >> >>),
           Hunk(SomeLine(3), << <<"-", <<"c", LF>> >>, <<"+", <<"C", LF>> >> >>)>>
\* Two hunks on lines 1-2 and 2.
P_overlap == <<Hunk(SomeLine(1), << <<"-", <<"a", LF>> >>, <<"-", <<"b", LF>> >>,
                                    <<"+", <<"A", LF>> >> >>),
               Hunk(SomeLine(2), << <<"-", <<"b", LF>> >>, <<"+", <<"B", LF>> >> >>)>>

Patches == {P_empty, P_bB, P_fuzzy, P_two, P_overlap}

\* Diff arguments that are no patch: HTML entities, an unencodable character.
D_entities == <<"&", "a", "m", "p", ";", "l", "t", ";", LF>>
D_surrogate == <<"x", Surr, LF>>
\* A patch whose header declares two source lines and whose body has one:
\* "@@ -1,2 +1,1 @@", "-a", "+A".
D_malformed ==
    <<"@", "@", " ", "-", "1", ",", "2", " ", "+", "1", ",", "1", " ", "@", "@", LF,
      "-", "a", LF, "+", "A", LF>>

\* A diff argument: its text, the hunks it was rendered from (parsed), and
\* whether a header of it declares a count its body does not have (malformed).
DiffInput(text, hunks, parsed, malformed) ==
    [text |-> text, hunks |-> hunks, parsed |-> parsed, malformed |-> malformed]

DiffInputs ==
    {DiffInput(HunksText(p), p, TRUE, FALSE) : p \in Patches}
    \cup {DiffInput(t, <<>>, FALSE, FALSE) : t \in {D_entities, D_surrogate}}
    \cup {DiffInput(D_malformed, <<>>, FALSE, TRUE)}

StartLines == {NoLine} \cup {SomeLine(n) : n \in 0..MaxStartLine}

-----------------------------------------------------------------------------
(* The strings apply_diff_function returns, by their template *)

NoReport == [template |-> None, path |-> None, detail |-> None]
Report(template, p, detail) == [template |-> template, path |-> p, detail |-> detail]

R_NotExist == "Error: File does not exist at path"
R_ReadFailed == "Error: Unable to read file"
R_DiffFailed == "Error: Unable to apply diff to file"
R_WriteFailed == "Error: Failed to write changes to file"
R_Success == "Successfully applied changes to file"

NoResult == DiffApplicationResult(FALSE, <<>>, None)
-----------------------------------------------------------------------------
(* apply_diff_function, one action per step *)

\* A step the call took: which one, whether it went through, and for a write
\* the number of characters that reached the file.
Event(step, ok, n) == [step |-> step, ok |-> ok, n |-> n]

\* The step is added to the call's trace; the first step of a call also notes
\* which calls had returned by then.
Log(c, step, ok, n) ==
    /\ trace' = [trace EXCEPT ![c] = Append(@, Event(step, ok, n))]
    /\ returned' = IF trace[c] = <<>>
                   THEN [returned EXCEPT ![c] = {d \in Calls : pc[d] = "done"}]
                   ELSE returned

Finish(c, r) ==
    /\ report' = [report EXCEPT ![c] = r]
    /\ pc' = [pc EXCEPT ![c] = "done"]

\* The first step with processed_diff kept in a module-level variable that
\* every call shares, not in a local of the call.
CheckExistsSharedDiff(c) ==
    /\ pc[c] = "check"
    /\ processed_diff' = [d \in Calls |-> unescape_html_entities_mock(diff[c])]
    /\ Log(c, "exists", fs[path[c]].exists, 0)
    /\ IF ~fs[path[c]].exists
       THEN Finish(c, Report(R_NotExist, path[c], None))
       ELSE /\ pc' = [pc EXCEPT ![c] = "open_r"]
            /\ UNCHANGED report
    /\ UNCHANGED <<fs, fs0, path, diff, start_line, patch, original_content,
                   diff_result, handle, lxVars, toolVars>>

\* The first step without its existence test (line 244 left out).
CheckExistsSkipped(c) ==
    /\ pc[c] = "check"
    /\ processed_diff' = [processed_diff EXCEPT ![c] = unescape_html_entities_mock(diff[c])]
    /\ Log(c, "exists", TRUE, 0)
    /\ pc' = [pc EXCEPT ![c] = "open_r"]
    /\ UNCHANGED <<fs, fs0, path, diff, start_line, patch, original_content,
                   diff_result, handle, report, lxVars, toolVars>>

\* Lines 230-245: resolve the path, unescape the diff, check the file exists.
CheckExists(c) ==
    /\ pc[c] = "check"
    /\ processed_diff' = [processed_diff EXCEPT ![c] = unescape_html_entities_mock(diff[c])]
    /\ Log(c, "exists", fs[path[c]].exists, 0)
    /\ IF ~fs[path[c]].exists
       THEN Finish(c, Report(R_NotExist, path[c], None))
       ELSE /\ pc' = [pc EXCEPT ![c] = "open_r"]
            /\ UNCHANGED report
    /\ UNCHANGED <<fs, fs0, path, diff, start_line, patch, original_content,
                   diff_result, handle, lxVars, toolVars>>

\* The open for reading with a failure reported as a missing file (the
\* message of line 245 copied to line 252).
OpenReadReportsNotExist(c) ==
    /\ pc[c] = "open_r"
    /\ \E ok \in (IF fs[path[c]].exists THEN BOOLEAN ELSE {FALSE}) :
         /\ Log(c, "open_r", ok, 0)
         /\ IF ok
            THEN /\ handle' = [handle EXCEPT ![c] = "r"]
                 /\ pc' = [pc EXCEPT ![c] = "read"]
                 /\ UNCHANGED report
            ELSE /\ Finish(c, Report(R_NotExist, path[c], None))
                 /\ UNCHANGED handle
    /\ UNCHANGED <<fs, fs0, path, diff, start_line, patch, processed_diff,
                   original_content, diff_result, lxVars, toolVars>>

\* Line 249: open(absolute_path, 'r'); the open may raise (permissions), and
\* raises when the file is gone.
OpenRead(c) ==
    /\ pc[c] = "open_r"
    /\ \E ok \in (IF fs[path[c]].exists THEN BOOLEAN ELSE {FALSE}) :
         /\ Log(c, "open_r", ok, 0)
         /\ IF ok
            THEN /\ handle' = [handle EXCEPT ![c] = "r"]
                 /\ pc' = [pc EXCEPT ![c] = "read"]
                 /\ UNCHANGED report
            ELSE /\ Finish(c, Report(R_ReadFailed, path[c], "open"))
                 /\ UNCHANGED handle
    /\ UNCHANGED <<fs, fs0, path, diff, start_line, patch, processed_diff,
                   original_content, diff_result, lxVars, toolVars>>

\* The read without the with block: a read that raises leaves the handle open.
ReadContentLeak(c) ==
    /\ pc[c] = "read"
    /\ \E ok \in BOOLEAN :
         /\ Log(c, "read", ok, 0)
         /\ IF ok
            THEN /\ original_content' =
                       [original_content EXCEPT ![c] = UniversalNewlines(fs[path[c]].data)]
                 /\ handle' = [handle EXCEPT ![c] = None]
                 /\ pc' = [pc EXCEPT ![c] = "patch"]
                 /\ UNCHANGED report
            ELSE /\ Finish(c, Report(R_ReadFailed, path[c], "read"))
                 /\ UNCHANGED <<original_content, handle>>
    /\ UNCHANGED <<fs, fs0, path, diff, start_line, patch, processed_diff,
                   diff_result, lxVars, toolVars>>

\* Lines 250-252: f.read() and the end of the with block; the read may raise
\* (an I/O error, bytes that are not UTF-8).
ReadContent(c) ==
    /\ pc[c] = "read"
    /\ handle' = [handle EXCEPT ![c] = None]
    /\ \E ok \in BOOLEAN :
         /\ Log(c, "read", ok, 0)
         /\ IF ok
            THEN /\ original_content' =
                       [original_content EXCEPT ![c] = UniversalNewlines(fs[path[c]].data)]
                 /\ pc' = [pc EXCEPT ![c] = "patch"]
                 /\ UNCHANGED report
            ELSE /\ Finish(c, Report(R_ReadFailed, path[c], "read"))
                 /\ UNCHANGED original_content
    /\ UNCHANGED <<fs, fs0, path, diff, start_line, patch, processed_diff,
                   diff_result, lxVars, toolVars>>

\* The stub step given the file as it is now, read again, in place of the
\* content the call read.
ApplyStubRereads(c) ==
    /\ pc[c] = "patch"
    /\ LET r == apply_diff_stub(UniversalNewlines(fs[path[c]].data), processed_diff[c],
                                start_line[c])
       IN  /\ diff_result' = [diff_result EXCEPT ![c] = r]
           /\ Log(c, "patch", r.success, 0)
           /\ IF ~r.success
              THEN Finish(c, Report(R_DiffFailed, path[c], r.error))
              ELSE /\ pc' = [pc EXCEPT ![c] = "open_w"]
                   /\ UNCHANGED report
    /\ UNCHANGED <<fs, fs0, path, diff, start_line, patch, processed_diff,
                   original_content, handle, lxVars, toolVars>>

\* The stub step without the test of diff_result.success (lines 258-259 left
\* out): the call goes on to write whatever the stub returned.
ApplyStubUnchecked(c) ==
    /\ pc[c] = "patch"
    /\ LET r == apply_diff_stub(original_content[c], processed_diff[c], start_line[c])
       IN  /\ diff_result' = [diff_result EXCEPT ![c] = r]
           /\ Log(c, "patch", r.success, 0)
    /\ pc' = [pc EXCEPT ![c] = "open_w"]
    /\ UNCHANGED <<fs, fs0, path, diff, start_line, patch, processed_diff,
                   original_content, handle, report, lxVars, toolVars>>

\* Lines 256-259: the stub, and the error report when it fails.
ApplyStub(c) ==
    /\ pc[c] = "patch"
    /\ LET r == apply_diff_stub(original_content[c], processed_diff[c], start_line[c])
       IN  /\ diff_result' = [diff_result EXCEPT ![c] = r]
           /\ Log(c, "patch", r.success, 0)
           /\ IF ~r.success
              THEN Finish(c, Report(R_DiffFailed, path[c], r.error))
              ELSE /\ pc' = [pc EXCEPT ![c] = "open_w"]
                   /\ UNCHANGED report
    /\ UNCHANGED <<fs, fs0, path, diff, start_line, patch, processed_diff,
                   original_content, handle, lxVars, toolVars>>

\* The open for writing with mode 'r+' in place of 'w': the file keeps its
\* content until it is written over.
OpenWriteNoTruncate(c) ==
    /\ pc[c] = "open_w"
    /\ \E ok \in BOOLEAN :
         /\ Log(c, "open_w", ok, 0)
         /\ IF ok
            THEN /\ handle' = [handle EXCEPT ![c] = "w"]
                 /\ pc' = [pc EXCEPT ![c] = "write"]
                 /\ UNCHANGED report
            ELSE /\ Finish(c, Report(R_WriteFailed, path[c], "open"))
                 /\ UNCHANGED handle
    /\ UNCHANGED <<fs, fs0, path, diff, start_line, patch, processed_diff,
                   original_content, diff_result, lxVars, toolVars>>

\* Line 263: open(absolute_path, 'w') truncates the file (and creates it when
\* it is gone); the open may raise, and then the file is as it was.
OpenWrite(c) ==
    /\ pc[c] = "open_w"
    /\ \E ok \in BOOLEAN :
         /\ Log(c, "open_w", ok, 0)
         /\ IF ok
            THEN /\ fs' = [fs EXCEPT ![path[c]] = File(<<>>)]
                 /\ handle' = [handle EXCEPT ![c] = "w"]
                 /\ pc' = [pc EXCEPT ![c] = "write"]
                 /\ UNCHANGED report
            ELSE /\ Finish(c, Report(R_WriteFailed, path[c], "open"))
                 /\ UNCHANGED <<fs, handle>>
    /\ UNCHANGED <<fs0, path, diff, start_line, patch, processed_diff,
                   original_content, diff_result, lxVars, toolVars>>

\* Lines 264-270: f.write(diff_result.content) and the end of the with block.
\* The text is encoded first (a lone surrogate raises before a byte is
\* written); the bytes go to offset 0 of the file as it then is, all of them
\* or, on an I/O error (a full disk), only the first k.
WriteContent(c) ==
    /\ pc[c] = "write"
    /\ handle' = [handle EXCEPT ![c] = None]
    /\ LET content == diff_result[c].content
       IN  IF ~Encodable(content)
           THEN /\ Finish(c, Report(R_WriteFailed, path[c], "encode"))
                /\ Log(c, "write", FALSE, 0)
                /\ UNCHANGED fs
           ELSE \E k \in 0..Len(content) :
                  /\ Log(c, "write", k = Len(content), k)
                  /\ fs' = [fs EXCEPT ![path[c]] =
                                File(WriteAt0(fs[path[c]].data, SubSeq(content, 1, k)))]
                  /\ IF k = Len(content)
                     THEN Finish(c, Report(R_Success, path[c], None))
                     ELSE Finish(c, Report(R_WriteFailed, path[c], "write"))
    /\ UNCHANGED <<fs0, path, diff, start_line, patch, processed_diff,
                   original_content, diff_result, lxVars, toolVars>>

Step(c) ==
    \/ CheckExists(c)
    \/ OpenRead(c)
    \/ ReadContent(c)
    \/ ApplyStub(c)
    \/ OpenWrite(c)
    \/ WriteContent(c)

Next == \E c \in Calls : Step(c)

\* No call of unescape_html_entities_mock on its own is under way.
UeIdle ==
    /\ ue_pc = "off"
    /\ ue_text = <<>>
    /\ ue_out = <<>>

\* A name of the working directory as write_to_file sees it: nothing, a
\* directory, or a file holding `data`.
WfNone == [kind |-> "none", data |-> <<>>]
WfDir == [kind |-> "dir", data |-> <<>>]
WfFile(data) == [kind |-> "file", data |-> data]

\* The names: a directory d, a directory e in it, and a file f in each.
WfNodes == {"d", "d/e", "f", "d/f", "d/e/f"}

WfNoReport == [template |-> None, path |-> None, lines |-> 0, predicted |-> NoLine,
               detail |-> None]

\* No call of write_to_file_tool_func is under way.
WfIdle ==
    /\ wf_pc = "off"
    /\ wf_path = "f"
    /\ wf_content = <<>>
    /\ wf_line_count = NoLine
    /\ wf_fs = [n \in WfNodes |-> WfNone]
    /\ wf_fs0 = wf_fs
    /\ wf_report = WfNoReport

\* Optional[str]: no string, or the string `text`.
NoStr == [given |-> FALSE, text |-> <<>>]
SomeStr(text) == [given |-> TRUE, text |-> text]

\* What json.loads made of a string: nothing (it raised, or was not called),
\* or a value of some kind; for a dict, whether it has no key.
NotParsed == [valid |-> FALSE, kind |-> None, empty |-> FALSE]
Parsed(kind, empty) == [valid |-> TRUE, kind |-> kind, empty |-> empty]

\* The dict call_mcp_tool_stub returns: its isError and which of its four
\* responses the content is.
ToolResult(isError, content) == [isError |-> isError, content |-> content]
NoToolResult == ToolResult(FALSE, None)

McpNoReport == [template |-> None, error |-> FALSE]

\* No call of use_mcp_tool_function is under way.
McpIdle ==
    /\ mcp_pc = "off"
    /\ tool_name = "other_tool"
    /\ arguments = NoStr
    /\ parsed_arguments = NotParsed
    /\ tool_result = NoToolResult
    /\ mcp_calls = 0
    /\ mcp_report = McpNoReport

\* What a call of update_todo_list_tool_py was given and made.
TdCall(input, items, md) == [todos |-> input, items |-> items, md |-> md]

\* No call of update_todo_list_tool_py is under way.
TdIdle ==
    /\ td_pc = "off"
    /\ td_round = 1
    /\ todos = <<>>
    /\ normalized_todos = <<>>
    /\ updated_md = <<>>
    /\ td_report = None
    /\ td_first = TdCall(<<>>, <<>>, <<>>)

AcNoReport == [template |-> None, result |-> <<>>, command |-> NoStr]

\* No call of attempt_completion_function is under way.
AcIdle ==
    /\ ac_pc = "off"
    /\ result = <<>>
    /\ command = NoStr
    /\ ac_captured = 0
    /\ ac_report = AcNoReport

FiNoReport == [error |-> FALSE, text |-> None]

\* No call of fetch_instructions_tool_func is under way.
FiIdle ==
    /\ fi_pc = "off"
    /\ task = <<>>
    /\ fi_content = None
    /\ fi_report = FiNoReport

\* The tools other than apply_diff are not called.
ToolsIdle == UeIdle /\ WfIdle /\ McpIdle /\ TdIdle /\ AcIdle /\ FiIdle

\* The values the call variables start from, for the calls in `running`.
InitCalls(running) ==
    /\ fs \in [Paths -> {Absent} \cup {File(t) : t \in Originals}]
    /\ fs0 = fs
    /\ pc = [c \in Calls |-> IF c \in running THEN "check" ELSE "off"]
    /\ path \in [Calls -> Paths]
    /\ \E d \in [Calls -> DiffInputs] :
         /\ diff = [c \in Calls |-> d[c].text]
         /\ patch = [c \in Calls |-> d[c]]
    /\ start_line \in [Calls -> StartLines]
    /\ \A c \in Calls \ running :
         /\ path[c] = "p1"
         /\ patch[c].hunks = P_empty /\ patch[c].parsed
         /\ start_line[c] = NoLine
    /\ processed_diff = [c \in Calls |-> <<>>]
    /\ original_content = [c \in Calls |-> <<>>]
    /\ diff_result = [c \in Calls |-> NoResult]
    /\ handle = [c \in Calls |-> None]
    /\ report = [c \in Calls |-> NoReport]
    /\ trace = [c \in Calls |-> <<>>]
    /\ returned = [c \in Calls |-> {}]

LxIdle ==
    /\ lx_pc = "off"
    /\ lx_text = <<>>
    /\ lx_lines = <<>>
    /\ lx_joined = <<>>

\* One call of apply_diff_function, on any file system and any arguments.
Init ==
    /\ InitCalls({1})
    /\ fs["p2"] \in {Absent, File(T_abc)}
    /\ LxIdle
    /\ ToolsIdle

Spec == Init /\ [][Next]_vars

\* Two calls of apply_diff_function that the caller does not serialize, on
\* two paths or on one: their steps interleave in every order.
ConcFiles == {Absent, File(T_empty), File(T_abc)}
ConcDiffs ==
    {DiffInput(HunksText(P_bB), P_bB, TRUE, FALSE),
     DiffInput(HunksText(P_empty), P_empty, TRUE, FALSE),
     DiffInput(D_entities, <<>>, FALSE, FALSE)}
ConcStartLines == {NoLine, SomeLine(1), SomeLine(2)}

ConcInit ==
    /\ fs \in [Paths -> ConcFiles]
    /\ fs0 = fs
    /\ pc = [c \in Calls |-> "check"]
    /\ path \in {[c \in Calls |-> IF c = 1 THEN "p1" ELSE p] : p \in Paths}
    /\ \E d \in [Calls -> ConcDiffs] :
         /\ diff = [c \in Calls |-> d[c].text]
         /\ patch = [c \in Calls |-> d[c]]
    /\ start_line \in [Calls -> ConcStartLines]
    /\ processed_diff = [c \in Calls |-> <<>>]
    /\ original_content = [c \in Calls |-> <<>>]
    /\ diff_result = [c \in Calls |-> NoResult]
    /\ handle = [c \in Calls |-> None]
    /\ report = [c \in Calls |-> NoReport]
    /\ trace = [c \in Calls |-> <<>>]
    /\ returned = [c \in Calls |-> {}]
    /\ LxIdle
    /\ ToolsIdle

ConcSpec == ConcInit /\ [][Next]_vars

-----------------------------------------------------------------------------
(* The line index: content.splitlines(keepends=True) and "".join, on every   *)
(* text of at most MaxLen characters                                         *)

LxAlphabet == {"a", " ", LF, CR, FF}

LxTexts == UNION {[1..n -> LxAlphabet] : n \in 0..MaxLen}

\* Line 70: original_lines = original_content.splitlines(keepends=True)
LxSplit ==
    /\ lx_pc = "split"
    /\ lx_lines' = SplitLines(lx_text)
    /\ lx_pc' = "join"
    /\ UNCHANGED <<lx_text, lx_joined, callVars, toolVars>>

\* Rejoining the lines, as a caller of the line index does.
LxJoin ==
    /\ lx_pc = "join"
    /\ lx_joined' = Concat(lx_lines)
    /\ lx_pc' = "done"
    /\ UNCHANGED <<lx_text, lx_lines, callVars, toolVars>>

LxNext == LxSplit \/ LxJoin

LxInit ==
    /\ InitCalls({})
    /\ fs = [p \in Paths |-> Absent]
    /\ path = [c \in Calls |-> "p1"]
    /\ lx_pc = "split"
    /\ lx_text \in LxTexts
    /\ lx_lines = <<>>
    /\ lx_joined = <<>>
    /\ ToolsIdle

\* No call of apply_diff_function is under way and no file exists.
CallsIdle ==
    /\ InitCalls({})
    /\ fs = [p \in Paths |-> Absent]
    /\ path = [c \in Calls |-> "p1"]

LxSpec == LxInit /\ [][LxNext]_vars

-----------------------------------------------------------------------------
(* unescape_html_entities_mock, on every text of at most MaxUeTokens pieces  *)
(* taken among the five entities, their parts and a letter                   *)

Ent_lt == <<"&", "l", "t", ";">>
Ent_gt == <<"&", "g", "t", ";">>
Ent_amp == <<"&", "a", "m", "p", ";">>
Ent_quot == <<"&", "q", "u", "o", "t", ";">>
Ent_apos == <<"&", "#", "3", "9", ";">>

UePieces ==
    {Ent_lt, Ent_gt, Ent_amp, Ent_quot, Ent_apos,
     <<"&">>, <<"l", "t", ";">>, <<"g", "t", ";">>, <<"a", "m", "p", ";">>,
     <<"q", "u", "o", "t", ";">>, <<"#", "3", "9", ";">>, <<"a">>}

UeTexts == {Concat(ps) : ps \in UNION {[1..n -> UePieces] : n \in 0..MaxUeTokens}}

\* Line 38: the five replace calls, and the return.
UeUnescape ==
    /\ ue_pc = "call"
    /\ ue_out' = unescape_html_entities_mock(ue_text)
    /\ ue_pc' = "done"
    /\ UNCHANGED <<ue_text, callVars, lxVars, wfVars, mcpVars, tdVars, acVars, fiVars>>

UeNext == UeUnescape

UeInit ==
    /\ CallsIdle
    /\ LxIdle
    /\ ue_pc = "call"
    /\ ue_text \in UeTexts
    /\ ue_out = <<>>
    /\ WfIdle
    /\ McpIdle
    /\ TdIdle
    /\ AcIdle
    /\ FiIdle

UeSpec == UeInit /\ [][UeNext]_vars

-----------------------------------------------------------------------------
(* write_to_file_tool_func, one action per step that can raise *)

\* The backquote character, by its code point, and the fence of a code block.
Backquote == "U+0060"
Fence == <<Backquote, Backquote, Backquote>>

\* The directories above a path, from the working directory down.
Ancestors(p) ==
    IF p = "d/f" THEN <<"d">>
    ELSE IF p = "d/e/f" THEN <<"d", "d/e">>
    ELSE <<>>

Wf_Success == "Successfully wrote content to"
Wf_Error == "Error writing to file"

WfReport(template, p, lines, predicted, detail) ==
    [template |-> template, path |-> p, lines |-> lines, predicted |-> predicted,
     detail |-> detail]

\* Line 58: the except clause, whatever raised.
WfRaise(detail) ==
    /\ wf_report' = WfReport(Wf_Error, wf_path, 0, NoLine, detail)
    /\ wf_pc' = "done"

\* Lines 35-40: a content wrapped in a code fence loses its first and last
\* line, when it has more than two.
WfStripFence ==
    /\ wf_pc = "strip"
    /\ LET stripped_content == Strip(wf_content)
           lines == SplitOn(stripped_content, LF)
       IN  wf_content' =
               IF /\ StartsWith(stripped_content, Fence)
                  /\ EndsWith(stripped_content, Fence)
                  /\ Len(lines) > 2
               THEN JoinWith(SubSeq(lines, 2, Len(lines) - 1), LF)
               ELSE wf_content
    /\ wf_pc' = "mkdir"
    /\ UNCHANGED <<wf_path, wf_line_count, wf_fs, wf_fs0, wf_report,
                   callVars, lxVars, ueVars, mcpVars, tdVars, acVars, fiVars>>

\* Lines 42-45: absolute_path.parent.mkdir(parents=True, exist_ok=True). The
\* missing directories are made from the top down; making one may raise (no
\* permission, no space), and a file in the place of a directory raises. n is
\* the number of directories in place when mkdir returns or raises.
WfMkdir ==
    /\ wf_pc = "mkdir"
    /\ LET anc == Ancestors(wf_path)
       IN  \E n \in 0..Len(anc) :
             /\ \A j \in 1..n : wf_fs[anc[j]].kind # "file"
             /\ n < Len(anc) => wf_fs[anc[n + 1]].kind # "dir"
             /\ wf_fs' = [x \in WfNodes |->
                             IF \E j \in 1..n : anc[j] = x /\ wf_fs[x].kind = "none"
                             THEN WfDir ELSE wf_fs[x]]
             /\ IF n = Len(anc)
                THEN /\ wf_pc' = "open"
                     /\ UNCHANGED wf_report
                ELSE WfRaise("mkdir")
    /\ UNCHANGED <<wf_path, wf_content, wf_line_count, wf_fs0,
                   callVars, lxVars, ueVars, mcpVars, tdVars, acVars, fiVars>>

\* Line 47: open(absolute_path, 'w') creates the file or truncates it; it
\* raises on a directory and may raise otherwise (no permission), and then
\* the name is as it was.
WfOpen ==
    /\ wf_pc = "open"
    /\ \E ok \in (IF wf_fs[wf_path].kind = "dir" THEN {FALSE} ELSE BOOLEAN) :
         IF ok
         THEN /\ wf_fs' = [wf_fs EXCEPT ![wf_path] = WfFile(<<>>)]
              /\ wf_pc' = "write"
              /\ UNCHANGED wf_report
         ELSE /\ WfRaise("open")
              /\ UNCHANGED wf_fs
    /\ UNCHANGED <<wf_path, wf_content, wf_line_count, wf_fs0,
                   callVars, lxVars, ueVars, mcpVars, tdVars, acVars, fiVars>>

\* Lines 48-55: f.write(content), the end of the with block and the report.
\* The text is encoded first (a lone surrogate raises before a byte is
\* written); all of it reaches the file or, on an I/O error, its first k
\* characters.
WfWrite ==
    /\ wf_pc = "write"
    /\ IF ~Encodable(wf_content)
       THEN /\ WfRaise("encode")
            /\ UNCHANGED wf_fs
       ELSE \E k \in 0..Len(wf_content) :
              /\ wf_fs' = [wf_fs EXCEPT ![wf_path] = WfFile(SubSeq(wf_content, 1, k))]
              /\ IF k = Len(wf_content)
                 THEN /\ wf_report' = WfReport(Wf_Success, wf_path,
                                               Len(SplitOn(wf_content, LF)),
                                               wf_line_count, None)
                      /\ wf_pc' = "done"
                 ELSE WfRaise("write")
    /\ UNCHANGED <<wf_path, wf_content, wf_line_count, wf_fs0,
                   callVars, lxVars, ueVars, mcpVars, tdVars, acVars, fiVars>>

WfNext == WfStripFence \/ WfMkdir \/ WfOpen \/ WfWrite

\* What the file of the working directory or of d held before the call.
W_old == <<"o", "l", "d", LF>>
\* Contents: empty, a line, a line with a character UTF-8 cannot encode, and
\* two fenced blocks, one of them with nothing between the fences.
W_line == <<"x", LF>>
W_surrogate == <<"x", Surr>>
W_fenced == <<" ">> \o Fence \o <<"p", "y", LF, "a", LF, "b", LF>> \o Fence \o <<LF>>
W_fence_only == Fence \o <<LF>> \o Fence

WfContents == {<<>>, W_line, W_surrogate, W_fenced, W_fence_only}
WfPaths == {"f", "d", "d/f", "d/e/f"}

\* The trees the call can find: a file or a directory only in a directory.
WfTrees ==
    {t \in [WfNodes -> {WfNone, WfDir, WfFile(W_old)}] :
        /\ t["f"] # WfDir /\ t["d/f"] # WfDir /\ t["d/e/f"] # WfDir
        /\ t["d"] # WfDir => (t["d/e"] = WfNone /\ t["d/f"] = WfNone)
        /\ t["d/e"] # WfDir => t["d/e/f"] = WfNone}

WfInit ==
    /\ CallsIdle
    /\ LxIdle
    /\ UeIdle
    /\ wf_pc = "strip"
    /\ wf_path \in WfPaths
    /\ wf_content \in WfContents
    /\ wf_line_count \in {NoLine, SomeLine(2)}
    /\ wf_fs \in WfTrees
    /\ wf_fs0 = wf_fs
    /\ wf_report = WfNoReport
    /\ McpIdle
    /\ TdIdle
    /\ AcIdle
    /\ FiIdle

WfSpec == WfInit /\ [][WfNext]_vars

-----------------------------------------------------------------------------
(* json.loads, on the characters the arguments are made of *)

JsonWhitespace == {" ", "\t", LF, CR}

\* The first position from i on that holds no whitespace (Len(s) + 1 at the end).
SkipWs(s, i) ==
    LET rest == {j \in i..Len(s) : s[j] \notin JsonWhitespace}
    IN  IF rest = {} THEN Len(s) + 1 ELSE CHOOSE j \in rest : \A k \in rest : j <= k

\* A string starts at i: the position after its closing quote, or 0. (The
\* characters here hold no backslash and no control character.)
JsonString(s, i) ==
    LET close == {j \in (i + 1)..Len(s) : s[j] = "\""}
    IN  IF i > Len(s) \/ s[i] # "\"" \/ close = {} THEN 0
        ELSE (CHOOSE j \in close : \A k \in close : j <= k) + 1

\* A number starts at i: the position after its digits, or 0. (The only digit
\* here is 1, so every run of digits is a number.)
JsonNumber(s, i) ==
    LET stop == {j \in i..Len(s) : s[j] # "1"}
    IN  IF i > Len(s) \/ s[i] # "1" THEN 0
        ELSE IF stop = {} THEN Len(s) + 1 ELSE CHOOSE j \in stop : \A k \in stop : j <= k

RECURSIVE JsonValue(_, _), JsonMembers(_, _), JsonElements(_, _)
\* A value starts at i: the position after it, or 0 when there is none.
JsonValue(s, i) ==
    IF i > Len(s) THEN 0
    ELSE IF s[i] = "\"" THEN JsonString(s, i)
    ELSE IF s[i] = "1" THEN JsonNumber(s, i)
    ELSE IF s[i] = "{"
         THEN LET j == SkipWs(s, i + 1)
              IN  IF j <= Len(s) /\ s[j] = "}" THEN j + 1 ELSE JsonMembers(s, j)
    ELSE IF s[i] = "["
         THEN LET j == SkipWs(s, i + 1)
              IN  IF j <= Len(s) /\ s[j] = "]" THEN j + 1 ELSE JsonElements(s, j)
    ELSE 0

\* The members of an object from the key at i to the closing brace.
JsonMembers(s, i) ==
    LET colon == IF JsonString(s, i) = 0 THEN 0 ELSE SkipWs(s, JsonString(s, i))
        after == IF colon = 0 \/ colon > Len(s) \/ s[colon] # ":" THEN 0
                 ELSE JsonValue(s, SkipWs(s, colon + 1))
        next == IF after = 0 THEN 0 ELSE SkipWs(s, after)
    IN  IF next = 0 \/ next > Len(s) THEN 0
        ELSE IF s[next] = "}" THEN next + 1
        ELSE IF s[next] = "," THEN JsonMembers(s, SkipWs(s, next + 1))
        ELSE 0

\* The elements of an array from the value at i to the closing bracket.
JsonElements(s, i) ==
    LET after == JsonValue(s, i)
        next == IF after = 0 THEN 0 ELSE SkipWs(s, after)
    IN  IF next = 0 \/ next > Len(s) THEN 0
        ELSE IF s[next] = "]" THEN next + 1
        ELSE IF s[next] = "," THEN JsonElements(s, SkipWs(s, next + 1))
        ELSE 0

\* json.loads(s): one value between optional whitespace, nothing after it.
JsonLoads(s) ==
    LET i == SkipWs(s, 1)
        e == JsonValue(s, i)
    IN  IF e = 0 \/ SkipWs(s, e) # Len(s) + 1 THEN NotParsed
        ELSE IF s[i] = "{" THEN Parsed("dict", s[SkipWs(s, i + 1)] = "}")
        ELSE IF s[i] = "[" THEN Parsed("list", FALSE)
        ELSE IF s[i] = "\"" THEN Parsed("str", FALSE)
        ELSE Parsed("int", FALSE)

-----------------------------------------------------------------------------
(* use_mcp_tool_function, one action per step *)

Mcp_NotObject == "Error: Arguments ... must be a valid JSON object (dictionary)."
Mcp_InvalidJson == "Error: Invalid JSON string provided for 'arguments'"
Mcp_NoResponse == "Error: No response from MCP server or tool execution failed internally."
Mcp_Failed == "Error: MCP Tool ... failed."
Mcp_Executed == "MCP Tool ... executed successfully."

McpReport(template, error) == [template |-> template, error |-> error]

\* call_mcp_tool_stub: the response by the tool's name.
call_mcp_tool_stub(name, args) ==
    IF name = "error_tool" THEN ToolResult(TRUE, "Simulated error")
    ELSE IF name = "get_user_info"
         THEN ToolResult(FALSE, IF args.valid /\ ~args.empty
                                THEN "User info for user_id of the arguments"
                                ELSE "User info for default_user")
    ELSE IF name = "list_available_tools" THEN ToolResult(FALSE, "Available tools")
    ELSE ToolResult(FALSE, "Successfully called MCP tool")

\* The first step without the test of line 156: whatever json.loads returns
\* is passed on.
McpParseAnyValue ==
    /\ mcp_pc = "parse"
    /\ IF arguments.given /\ arguments.text # <<>>
       THEN LET v == JsonLoads(arguments.text)
            IN  IF ~v.valid
                THEN /\ mcp_report' = McpReport(Mcp_InvalidJson, TRUE)
                     /\ mcp_pc' = "done"
                     /\ UNCHANGED parsed_arguments
                ELSE /\ parsed_arguments' = v
                     /\ mcp_pc' = "call"
                     /\ UNCHANGED mcp_report
       ELSE /\ mcp_pc' = "call"
            /\ UNCHANGED <<parsed_arguments, mcp_report>>
    /\ UNCHANGED <<tool_name, arguments, tool_result, mcp_calls,
                   callVars, lxVars, ueVars, wfVars, tdVars, acVars, fiVars>>

\* Lines 152-165: a non-empty arguments string is parsed; a string that is
\* no JSON, or is no JSON object, is reported and the call returns.
McpParse ==
    /\ mcp_pc = "parse"
    /\ IF arguments.given /\ arguments.text # <<>>
       THEN LET v == JsonLoads(arguments.text)
            IN  IF ~v.valid
                THEN /\ mcp_report' = McpReport(Mcp_InvalidJson, TRUE)
                     /\ mcp_pc' = "done"
                     /\ UNCHANGED parsed_arguments
                ELSE /\ parsed_arguments' = v
                     /\ IF v.kind # "dict"
                        THEN /\ mcp_report' = McpReport(Mcp_NotObject, TRUE)
                             /\ mcp_pc' = "done"
                        ELSE /\ mcp_pc' = "call"
                             /\ UNCHANGED mcp_report
       ELSE /\ mcp_pc' = "call"
            /\ UNCHANGED <<parsed_arguments, mcp_report>>
    /\ UNCHANGED <<tool_name, arguments, tool_result, mcp_calls,
                   callVars, lxVars, ueVars, wfVars, tdVars, acVars, fiVars>>

\* Lines 169-172: the stub is called; an empty response is reported (the
\* stub returns none).
McpCall ==
    /\ mcp_pc = "call"
    /\ mcp_calls' = mcp_calls + 1
    /\ LET r == call_mcp_tool_stub(tool_name, parsed_arguments)
       IN  /\ tool_result' = r
           /\ IF r = NoToolResult
              THEN /\ mcp_report' = McpReport(Mcp_NoResponse, TRUE)
                   /\ mcp_pc' = "done"
              ELSE /\ mcp_pc' = "format"
                   /\ UNCHANGED mcp_report
    /\ UNCHANGED <<tool_name, arguments, parsed_arguments,
                   callVars, lxVars, ueVars, wfVars, tdVars, acVars, fiVars>>

\* Lines 174-179: the report, by isError.
McpFormat ==
    /\ mcp_pc = "format"
    /\ mcp_report' = IF tool_result.isError
                     THEN McpReport(Mcp_Failed, TRUE)
                     ELSE McpReport(Mcp_Executed, FALSE)
    /\ mcp_pc' = "done"
    /\ UNCHANGED <<tool_name, arguments, parsed_arguments, tool_result, mcp_calls,
                   callVars, lxVars, ueVars, wfVars, tdVars, acVars, fiVars>>

McpNext == McpParse \/ McpCall \/ McpFormat

\* The pieces the arguments strings are made of.
McpPieces ==
    {<<"{">>, <<"}">>, <<"\"", "k", "\"">>, <<"\"", "k", "\"", ":">>, <<"1">>,
     <<"[">>, <<"]">>, <<",">>, <<" ">>}

McpTexts == {Concat(ps) : ps \in UNION {[1..n -> McpPieces] : n \in 0..MaxArgPieces}}

ToolNames == {"error_tool", "get_user_info", "list_available_tools", "other_tool"}

McpInit ==
    /\ CallsIdle
    /\ LxIdle
    /\ UeIdle
    /\ WfIdle
    /\ mcp_pc = "parse"
    /\ tool_name \in ToolNames
    /\ arguments \in {NoStr} \cup {SomeStr(t) : t \in McpTexts}
    /\ parsed_arguments = NotParsed
    /\ tool_result = NoToolResult
    /\ mcp_calls = 0
    /\ mcp_report = McpNoReport
    /\ TdIdle
    /\ AcIdle
    /\ FiIdle

McpSpec == McpInit /\ [][McpNext]_vars

-----------------------------------------------------------------------------
(* update_todo_list_tool_py: the checklist parser, the formatter, the tool *)

\* A line of splitlines(keepends=True) without its terminator.
DropEnd(l) ==
    IF Len(l) >= 2 /\ l[Len(l) - 1] = CR /\ l[Len(l)] = LF THEN SubSeq(l, 1, Len(l) - 2)
    ELSE IF l # <<>> /\ l[Len(l)] \in LineBreaks THEN SubSeq(l, 1, Len(l) - 1)
    ELSE l

\* str.splitlines()
Splitlines(s) == [i \in 1..Len(SplitLines(s)) |-> DropEnd(SplitLines(s)[i])]

\* Line 34: the stripped lines of md that are not empty.
StrippedLines(md) ==
    SelectSeq([i \in 1..Len(Splitlines(md)) |-> Strip(Splitlines(md)[i])],
              LAMBDA l : l # <<>>)

\* The characters of the class [ xX\-\~]
StatusChars == {" ", "x", "X", "-", "~"}

\* The first position from i on that holds no \s character.
SkipSpace(line, i) ==
    LET rest == {j \in i..Len(line) : line[j] \notin Whitespace}
    IN  IF rest = {} THEN Len(line) + 1 ELSE CHOOSE j \in rest : \A k \in rest : j <= k

\* Line 38: the ways the pattern ^\s*\[\s*([ xX\-\~])\s*\]\s+(.+)$ matches the
\* line, each as the position of group 1 and the position group 2 starts at.
ChecklistMatches(line) ==
    LET open == SkipSpace(line, 1)
        n == Len(line)
    IN  IF open > n \/ line[open] # "[" THEN {}
        ELSE {m \in ((open + 1)..n) \X ((open + 1)..n) :
                /\ line[m[1]] \in StatusChars
                /\ \A k \in (open + 1)..(m[1] - 1) : line[k] \in Whitespace
                /\ LET close == SkipSpace(line, m[1] + 1)
                   IN  /\ close <= n /\ line[close] = "]"
                       /\ m[2] >= close + 2
                       /\ \A k \in (close + 1)..(m[2] - 1) : line[k] \in Whitespace
                /\ \A k \in m[2]..n : line[k] # LF}

\* The match re.match returns: every \s* and \s+ takes all it can, the
\* earlier one first.
ChecklistMatch(line) ==
    LET ms == ChecklistMatches(line)
    IN  CHOOSE m \in ms :
            \A o \in ms : o[1] < m[1] \/ (o[1] = m[1] /\ o[2] <= m[2])

\* Lines 42-47: the status a status character stands for.
StatusOf(status_char) ==
    IF status_char \in {"x", "X"} THEN "completed"
    ELSE IF status_char \in {"-", "~"} THEN "in_progress"
    ELSE "pending"

StatusText(status) ==
    IF status = "completed" THEN <<"c", "o", "m", "p", "l", "e", "t", "e", "d">>
    ELSE IF status = "in_progress"
         THEN <<"i", "n", "_", "p", "r", "o", "g", "r", "e", "s", "s">>
    ELSE <<"p", "e", "n", "d", "i", "n", "g">>

\* hashlib.md5(...).hexdigest(): a digest stands for the text digested (two
\* texts have one digest only when they are equal).
Md5(text) == <<"md5", text>>

TodoItem(id, content, status) == [id |-> id, content |-> content, status |-> status]

\* Lines 42-53: the item of a line that matches.
ItemOf(line) ==
    LET m == ChecklistMatch(line)
        status == StatusOf(line[m[1]])
        content == Strip(SubSeq(line, m[2], Len(line)))
    IN  TodoItem(Md5(content \o StatusText(status)), content, status)

\* The lines of md that match the pattern, stripped, in order.
MatchingLines(md) == SelectSeq(StrippedLines(md), LAMBDA l : ChecklistMatches(l) # {})

\* Line 51: encode('utf-8') raises for a content UTF-8 cannot encode.
ParseRaises(md) ==
    \E i \in 1..Len(MatchingLines(md)) : ~Encodable(MatchingLines(md)[i])

\* parse_markdown_checklist, when it does not raise.
parse_markdown_checklist(md) ==
    [i \in 1..Len(MatchingLines(md)) |-> ItemOf(MatchingLines(md)[i])]

\* normalize_status
normalize_status(status) ==
    IF status = "completed" THEN "completed"
    ELSE IF status = "in_progress" THEN "in_progress"
    ELSE "pending"

\* Lines 62-64: the line of an item.
ItemLine(t) ==
    (IF t.status = "completed" THEN <<"[", "x", "]", " ">>
     ELSE IF t.status = "in_progress" THEN <<"[", "-", "]", " ">>
     ELSE <<"[", " ", "]", " ">>) \o t.content

\* The line of an item as a list item of markdown: "- [x] content".
ItemLineDashed(t) == <<"-", " ">> \o ItemLine(t)

\* todo_list_to_markdown writing list items, "- [ ] content".
todo_list_to_markdown_dashed(items) ==
    JoinWith([i \in 1..Len(items) |-> ItemLineDashed(items[i])], LF)

\* todo_list_to_markdown
todo_list_to_markdown(items) ==
    JoinWith([i \in 1..Len(items) |-> ItemLine(items[i])], LF)

Td_Updated == "Todo list updated successfully:"
Td_Error == "Error updating todo list:"

\* Lines 106-147: one call of the tool, from the parse to the report.
TdUpdate ==
    /\ td_pc = "call"
    /\ IF ParseRaises(todos)
       THEN /\ td_report' = Td_Error
            /\ UNCHANGED <<normalized_todos, updated_md>>
       ELSE LET parsed_todos == parse_markdown_checklist(todos)
                normalized ==
                    [i \in 1..Len(parsed_todos) |->
                        TodoItem(parsed_todos[i].id, parsed_todos[i].content,
                                 normalize_status(parsed_todos[i].status))]
            IN  /\ normalized_todos' = normalized
                /\ updated_md' = todo_list_to_markdown(normalized)
                /\ td_report' = Td_Updated
    /\ td_pc' = "done"
    /\ UNCHANGED <<td_round, todos, td_first, callVars, lxVars, ueVars, wfVars, mcpVars, acVars, fiVars>>

\* The caller gives the tool the checklist it emitted: a second call, on
\* updated_md.
TdAgain ==
    /\ td_pc = "done"
    /\ td_round = 1
    /\ td_report = Td_Updated
    /\ td_first' = TdCall(todos, normalized_todos, updated_md)
    /\ td_round' = 2
    /\ todos' = updated_md
    /\ normalized_todos' = <<>>
    /\ updated_md' = <<>>
    /\ td_report' = None
    /\ td_pc' = "call"
    /\ UNCHANGED <<callVars, lxVars, ueVars, wfVars, mcpVars, acVars, fiVars>>

TdNext == TdUpdate \/ TdAgain

\* The pieces the todos texts are made of.
TdPieces ==
    {<<"[", "x", "]", " ", "a">>, <<"[", " ", "]", " ", "b">>, <<"[", "-", "]", " ", "a">>,
     <<"[">>, <<"]">>, <<" ">>, <<"x">>, <<LF>>, <<Surr>>}

TdTexts == {Concat(ps) : ps \in UNION {[1..n -> TdPieces] : n \in 0..MaxTodoPieces}}

TdInit ==
    /\ CallsIdle
    /\ LxIdle
    /\ UeIdle
    /\ WfIdle
    /\ McpIdle
    /\ td_pc = "call"
    /\ td_round = 1
    /\ todos \in TdTexts
    /\ normalized_todos = <<>>
    /\ updated_md = <<>>
    /\ td_report = None
    /\ td_first = TdCall(<<>>, <<>>, <<>>)
    /\ AcIdle
    /\ FiIdle

TdSpec == TdInit /\ [][TdNext]_vars

-----------------------------------------------------------------------------
(* attempt_completion_function, one action per step *)

Ac_MissingParam == "Error: Missing required parameter 'result' for tool 'attempt_completion'."
Ac_Completed == "Result: Task completed successfully."

AcReport(template, res, cmd) == [template |-> template, result |-> res, command |-> cmd]

\* The first step testing `result is None`: a str is never None.
AcCheckNoneOnly ==
    /\ ac_pc = "check"
    /\ ac_pc' = "capture"
    /\ UNCHANGED <<result, command, ac_captured, ac_report,
                   callVars, lxVars, ueVars, wfVars, mcpVars, tdVars, fiVars>>

\* Lines 92-95: an empty result is reported as the missing parameter.
AcCheck ==
    /\ ac_pc = "check"
    /\ IF result = <<>>
       THEN /\ ac_report' = AcReport(Ac_MissingParam, <<>>, NoStr)
            /\ ac_pc' = "done"
       ELSE /\ ac_pc' = "capture"
            /\ UNCHANGED ac_report
    /\ UNCHANGED <<result, command, ac_captured,
                   callVars, lxVars, ueVars, wfVars, mcpVars, tdVars, fiVars>>

\* Line 98: capture_task_completed_stub("simulated_task_id")
AcCapture ==
    /\ ac_pc = "capture"
    /\ ac_captured' = ac_captured + 1
    /\ ac_pc' = "respond"
    /\ UNCHANGED <<result, command, ac_report,
                   callVars, lxVars, ueVars, wfVars, mcpVars, tdVars, fiVars>>

\* Lines 100-110: the report, with the command when one is given and not empty.
AcRespond ==
    /\ ac_pc = "respond"
    /\ ac_report' = AcReport(Ac_Completed, result,
                             IF command.given /\ command.text # <<>> THEN command ELSE NoStr)
    /\ ac_pc' = "done"
    /\ UNCHANGED <<result, command, ac_captured,
                   callVars, lxVars, ueVars, wfVars, mcpVars, tdVars, fiVars>>

AcNext == AcCheck \/ AcCapture \/ AcRespond

\* The result and command texts: at most MaxAcPieces pieces.
AcPieces == {<<"o", "k">>, <<" ">>, <<LF>>, <<"g", "o">>}
AcTexts == {Concat(ps) : ps \in UNION {[1..n -> AcPieces] : n \in 0..MaxAcPieces}}

AcInit ==
    /\ CallsIdle
    /\ LxIdle
    /\ UeIdle
    /\ WfIdle
    /\ McpIdle
    /\ TdIdle
    /\ FiIdle
    /\ ac_pc = "check"
    /\ result \in AcTexts
    /\ command \in {NoStr} \cup {SomeStr(t) : t \in AcTexts}
    /\ ac_captured = 0
    /\ ac_report = AcNoReport

AcSpec == AcInit /\ [][AcNext]_vars

-----------------------------------------------------------------------------
(* fetch_instructions_tool_func, one action per step *)

\* str.lower(), on the letters A to Z.
LowerChar(ch) ==
    LET upper == <<"A", "B", "C", "D", "E", "F", "G", "H", "I", "J", "K", "L", "M",
                   "N", "O", "P", "Q", "R", "S", "T", "U", "V", "W", "X", "Y", "Z">>
        lower == <<"a", "b", "c", "d", "e", "f", "g", "h", "i", "j", "k", "l", "m",
                   "n", "o", "p", "q", "r", "s", "t", "u", "v", "w", "x", "y", "z">>
    IN  IF \E i \in 1..Len(upper) : upper[i] = ch
        THEN lower[CHOOSE i \in 1..Len(upper) : upper[i] = ch]
        ELSE ch
Lower(s) == [i \in 1..Len(s) |-> LowerChar(s[i])]

\* The keys of instructions_db.
K_create_file ==
    <<"c", "r", "e", "a", "t", "e", "_", "f", "i", "l", "e">>
K_read_file_example ==
    <<"r", "e", "a", "d", "_", "f", "i", "l", "e", "_", "e", "x", "a", "m", "p", "l",
      "e">>
K_debug_issue ==
    <<"d", "e", "b", "u", "g", "_", "i", "s", "s", "u", "e">>
K_default ==
    <<"d", "e", "f", "a", "u", "l", "t">>

I_create_file ==
    "To create a file, use the 'write_to_file' tool. Specify the 'path' and 'content'."
I_read_file_example ==
    "To read a file, use the 'read_file' tool with the 'args' parameter. Example: <files><file><path>myfile.txt</path></file></files>."
I_debug_issue ==
    "If you encounter an issue, first check logs, then try to isolate the problem. Use 'read_file' to examine relevant code."
I_default ==
    "No specific instructions found for this task. Please provide a more precise task description."

\* Lines 14-19
instructions_db(key) ==
    IF key = K_create_file THEN I_create_file
    ELSE IF key = K_read_file_example THEN I_read_file_example
    ELSE IF key = K_debug_issue THEN I_debug_issue
    ELSE I_default

InstructionKeys == {K_create_file, K_read_file_example, K_debug_issue, K_default}

\* The lookup without lower(): the task name as given is the key.
mock_fetch_instructions_as_given(task_name) ==
    IF task_name \in InstructionKeys
    THEN instructions_db(task_name)
    ELSE instructions_db(K_default)

\* Line 20: instructions_db.get(task_name.lower(), instructions_db["default"])
mock_fetch_instructions(task_name) ==
    IF Lower(task_name) \in InstructionKeys
    THEN instructions_db(Lower(task_name))
    ELSE instructions_db(K_default)

Fi_NotFound == "Error: No specific instructions found for task"

FiReport(error, text) == [error |-> error, text |-> text]

\* Line 46: content = _mock_fetch_instructions(task)
FiFetch ==
    /\ fi_pc = "fetch"
    /\ fi_content' = mock_fetch_instructions(task)
    /\ fi_pc' = "return"
    /\ UNCHANGED <<task, fi_report,
                   callVars, lxVars, ueVars, wfVars, mcpVars, tdVars, acVars>>

\* Lines 48-53: the default text is reported as an error, any other returned.
FiReturn ==
    /\ fi_pc = "return"
    /\ fi_report' = IF fi_content = mock_fetch_instructions(K_default)
                    THEN FiReport(TRUE, Fi_NotFound)
                    ELSE FiReport(FALSE, fi_content)
    /\ fi_pc' = "done"
    /\ UNCHANGED <<task, fi_content,
                   callVars, lxVars, ueVars, wfVars, mcpVars, tdVars, acVars>>

FiNext == FiFetch \/ FiReturn

\* The pieces the task names are made of.
FiPieces ==
    {<<"c", "r", "e", "a", "t", "e", "_", "f", "i", "l", "e">>,
     <<"C", "r", "e", "a", "t", "e", "_", "F", "i", "l", "e">>,
     <<"R", "E", "A", "D", "_", "F", "I", "L", "E", "_", "E", "X", "A", "M", "P", "L",
       "E">>,
     <<"d", "e", "b", "u", "g", "_", "i", "s", "s", "u", "e">>,
     <<"D", "e", "b", "u", "g", "_", "I", "s", "s", "u", "e">>,
     <<"d", "e", "f", "a", "u", "l", "t">>,
     <<"D", "E", "F", "A", "U", "L", "T">>,
     <<"_">>,
     <<"s">>,
     <<" ">>}

FiTasks == {Concat(ps) : ps \in UNION {[1..n -> FiPieces] : n \in 0..MaxTaskPieces}}

FiInit ==
    /\ CallsIdle
    /\ LxIdle
    /\ UeIdle
    /\ WfIdle
    /\ McpIdle
    /\ TdIdle
    /\ AcIdle
    /\ fi_pc = "fetch"
    /\ task \in FiTasks
    /\ fi_content = None
    /\ fi_report = FiNoReport

FiSpec == FiInit /\ [][FiNext]_vars
-----------------------------------------------------------------------------
(* What the claims speak of: the state of a call, and the patch semantics  *)
(* of hunks (the expected lines, the inserted lines, where a hunk matches)  *)

Done(c) == pc[c] = "done"
Succeeded(c) == Done(c) /\ report[c].template = R_Success
FailedCall(c) == Done(c) /\ report[c].template # R_Success
\* The stub has returned its result to the call.
StubRan(c) == diff_result[c] # NoResult

Expected(h) ==
    LET m == Marked(h.body, {"-", " "}) IN [i \in 1..Len(m) |-> m[i][2]]
Inserted(h) ==
    LET m == Marked(h.body, {"+"}) IN [i \in 1..Len(m) |-> m[i][2]]

\* The declared start of a hunk: its header's, else the start_line hint, else 1.
Declared(c, h) ==
    IF h.start # NoLine THEN h.start[1]
    ELSE IF start_line[c] # NoLine THEN start_line[c][1] ELSE 1

MatchesAt(lines, exp, s) ==
    /\ s >= 1
    /\ s + Len(exp) - 1 <= Len(lines)
    /\ \A i \in 1..Len(exp) : lines[s + i - 1] = exp[i]

FuzzyMatchesAt(lines, exp, s) ==
    /\ s >= 1
    /\ s + Len(exp) - 1 <= Len(lines)
    /\ \A i \in 1..Len(exp) : Strip(lines[s + i - 1]) = Strip(exp[i])

\* The places of the file where a hunk's expected lines match.
ExactPlaces(lines, h) == {s \in 1..(Len(lines) + 1) : MatchesAt(lines, Expected(h), s)}
FuzzyPlaces(lines, h) == {s \in 1..(Len(lines) + 1) : FuzzyMatchesAt(lines, Expected(h), s)}

\* Lines [s, s + n) replaced by ins.
ReplaceRange(lines, s, n, ins) ==
    SubSeq(lines, 1, s - 1) \o ins \o SubSeq(lines, s + n, Len(lines))

RECURSIVE ApplyHunksAt(_, _, _, _)
\* The hunks applied in order, each at its declared start, to lines that the
\* hunks before it have already shifted by `shift`.
ApplyHunksAt(c, lines, hunks, shift) ==
    IF hunks = <<>> THEN lines
    ELSE LET h == Head(hunks)
         IN  ApplyHunksAt(c,
                 ReplaceRange(lines, Declared(c, h) + shift, Len(Expected(h)), Inserted(h)),
                 Tail(hunks),
                 shift + Len(Inserted(h)) - Len(Expected(h)))

\* The lines the call read, and the hunks of its patch argument.
ReadLines(c) == SplitLines(original_content[c])
HunksOf(c) == patch[c].hunks
IsPatch(c) == patch[c].parsed

\* Every hunk matches the file exactly at its declared start.
AllExactAtDeclared(c) ==
    \A i \in 1..Len(HunksOf(c)) :
        MatchesAt(ReadLines(c), Expected(HunksOf(c)[i]), Declared(c, HunksOf(c)[i]))

\* Two hunks whose ranges [start, start + len(expected)) intersect.
Overlapping(c) ==
    \E i, j \in 1..Len(HunksOf(c)) :
        /\ i < j
        /\ LET a == Declared(c, HunksOf(c)[i])
               b == Declared(c, HunksOf(c)[j])
           IN  /\ a < b + Len(Expected(HunksOf(c)[j]))
               /\ b < a + Len(Expected(HunksOf(c)[i]))

Abs(n) == IF n < 0 THEN -n ELSE n

\* The call gives a start_line, and one the file has (or the line after its end).
HintInFile(c) ==
    /\ start_line[c] # NoLine
    /\ start_line[c][1] \in 1..(Len(ReadLines(c)) + 1)

-----------------------------------------------------------------------------
(* Claims *)

\* C1: every call that returns an error report leaves the target file's
\* content as it was before the call; a failing write never leaves the file
\* truncated or partially rewritten.
C1_ErrorLeavesFileUntouched ==
    \A c \in Calls : FailedCall(c) => fs[path[c]] = fs0[path[c]]

\* C2: a single-hunk patch whose expected lines match the file exactly at the
\* declared start_line yields the original lines with that range replaced by
\* the inserted lines ([a, b, c] with b -> B at line 2 gives [a, B, c]).
C2_SingleHunkReplacesRange ==
    \A c \in Calls :
        (/\ StubRan(c) /\ IsPatch(c) /\ Len(HunksOf(c)) = 1
         /\ start_line[c] # NoLine
         /\ AllExactAtDeclared(c))
        => /\ diff_result[c].success
           /\ diff_result[c].content =
                 Concat(ReplaceRange(ReadLines(c), Declared(c, HunksOf(c)[1]),
                                     Len(Expected(HunksOf(c)[1])), Inserted(HunksOf(c)[1])))

\* C3: when a hunk's expected lines match nowhere in the file, neither exactly
\* nor after stripping whitespace, the apply fails and the file content is
\* unchanged (for a call whose start_line names a line of the file; the kind
\* of failure reported is left aside here).
C3_MismatchIsRejected ==
    \A c \in Calls :
        (/\ StubRan(c) /\ IsPatch(c) /\ HintInFile(c)
         /\ start_line[c][1] <= Len(ReadLines(c))
         /\ \E i \in 1..Len(HunksOf(c)) :
                /\ ExactPlaces(ReadLines(c), HunksOf(c)[i]) = {}
                /\ FuzzyPlaces(ReadLines(c), HunksOf(c)[i]) = {})
        => /\ ~diff_result[c].success
           /\ fs[path[c]] = fs0[path[c]]

\* C4: applying the empty patch succeeds and returns the original content
\* unchanged, and the file afterwards holds what it held before (for a call
\* whose start_line is in the file).
C4_EmptyPatchIsNoOp ==
    \A c \in Calls :
        (IsPatch(c) /\ HunksOf(c) = <<>> /\ HintInFile(c))
        => /\ StubRan(c) => /\ diff_result[c].success
                            /\ diff_result[c].content = original_content[c]
           /\ Succeeded(c) => fs[path[c]] = fs0[path[c]]

\* C5: after a successful apply, the lines of the original outside the hunks'
\* ranges are in the result, unchanged and in order: the lines before the
\* first hunk's start open the result and the lines after the last hunk's end
\* close it.
C5_LinesOutsideRangeKept ==
    \A c \in Calls :
        (/\ Succeeded(c) /\ IsPatch(c) /\ HunksOf(c) # <<>>
         /\ AllExactAtDeclared(c) /\ ~Overlapping(c))
        => LET old == ReadLines(c)
               new == SplitLines(fs[path[c]].data)
               first == Declared(c, HunksOf(c)[1])
               lastH == HunksOf(c)[Len(HunksOf(c))]
               end == Declared(c, lastH) + Len(Expected(lastH))
               after == Len(old) - end + 1
           IN  /\ Len(new) >= (first - 1) + after
               /\ SubSeq(new, 1, first - 1) = SubSeq(old, 1, first - 1)
               /\ SubSeq(new, Len(new) - after + 1, Len(new)) = SubSeq(old, end, Len(old))

\* C6: a patch of several hunks with pairwise disjoint ranges is applied in
\* ascending order of start and yields the composition of the hunks'
\* replacements on the original content (for a call whose start_line is in
\* the file).
C6_DisjointHunksCompose ==
    \A c \in Calls :
        (/\ StubRan(c) /\ IsPatch(c) /\ Len(HunksOf(c)) >= 2
         /\ HintInFile(c)
         /\ AllExactAtDeclared(c) /\ ~Overlapping(c))
        => /\ diff_result[c].success
           /\ diff_result[c].content = Concat(ApplyHunksAt(c, ReadLines(c), HunksOf(c), 0))

\* C7: when two hunks of a patch resolve to intersecting ranges the apply
\* fails, no hunk is applied and the file is unchanged (the kind of failure
\* reported is left aside here).
C7_OverlapIsRejected ==
    \A c \in Calls :
        (StubRan(c) /\ IsPatch(c) /\ AllExactAtDeclared(c) /\ Overlapping(c))
        => /\ ~diff_result[c].success
           /\ fs[path[c]] = fs0[path[c]]

\* C8: when a hunk matches nowhere exactly but matches at its declared start
\* after stripping whitespace, the apply succeeds and its result records that
\* fuzzy matching was used.
C8_FuzzyMatchSucceeds ==
    \A c \in Calls :
        (/\ StubRan(c) /\ IsPatch(c) /\ Len(HunksOf(c)) = 1
         /\ HintInFile(c)
         /\ ExactPlaces(ReadLines(c), HunksOf(c)[1]) = {}
         /\ FuzzyMatchesAt(ReadLines(c), Expected(HunksOf(c)[1]), Declared(c, HunksOf(c)[1])))
        => /\ diff_result[c].success
           /\ diff_result[c].details # None

\* C9: for some search window w, a hunk whose expected lines match at one
\* place t only resolves there (range t replaced) when its declared start (a
\* line in the file) is at most w lines from t, and the apply fails when it
\* is further away.
C9_WindowResolution ==
    \E w \in 0..MaxWindow :
        \A c \in Calls :
            (/\ StubRan(c) /\ IsPatch(c) /\ Len(HunksOf(c)) = 1
             /\ HintInFile(c)
             /\ Cardinality(ExactPlaces(ReadLines(c), HunksOf(c)[1])) = 1)
            => LET h == HunksOf(c)[1]
                   t == CHOOSE s \in ExactPlaces(ReadLines(c), h) : TRUE
               IN  IF Abs(Declared(c, h) - t) <= w
                   THEN /\ diff_result[c].success
                        /\ diff_result[c].content =
                              Concat(ReplaceRange(ReadLines(c), t, Len(Expected(h)), Inserted(h)))
                   ELSE ~diff_result[c].success

\* C10: splitting a content into terminator-preserving lines and joining the
\* lines again gives the content back, for every content; the empty content
\* has zero lines.
C10_SplitJoinRoundTrip ==
    /\ lx_pc = "done" => lx_joined = lx_text
    /\ (lx_pc \in {"join", "done"} /\ lx_text = <<>>) => lx_lines = <<>>

\* C10 witness: a content of two lines, the first ended by "\r\n" and the
\* last by nothing, was split and joined.
C10_Witness ==
    /\ lx_pc = "done"
    /\ lx_text = <<"a", CR, LF, "a">>
    /\ Len(lx_lines) = 2
    /\ lx_joined = lx_text
-----------------------------------------------------------------------------
(* Claims about the steps of one call *)

\* The steps of apply_diff_function in the order of its code.
Canon == <<"exists", "open_r", "read", "patch", "open_w", "write">>

LastEvent(c) == trace[c][Len(trace[c])]

\* The write step of the call went through.
WriteCompleted(c) ==
    trace[c] # <<>> /\ LastEvent(c).step = "write" /\ LastEvent(c).ok

\* The report template of the step that failed.
TemplateOfStep(step) ==
    CASE step = "exists" -> R_NotExist
      [] step \in {"open_r", "read"} -> R_ReadFailed
      [] step = "patch" -> R_DiffFailed
      [] step \in {"open_w", "write"} -> R_WriteFailed

\* The failure kind of the five named by the claim that a report identifies.
SpecKind(r) ==
    IF r.template = R_NotExist THEN "FileNotFound"
    ELSE IF r.template = R_WriteFailed THEN "WriteError"
    ELSE IF r.template = R_DiffFailed
            /\ r.detail \in {"MalformedPatch", "ContextMismatch", "OverlappingHunks"}
         THEN r.detail
    ELSE "none"

\* C11: with the start_line hint absent the apply does not fail for that
\* reason, and a patch whose expected lines match the file is applied.
C11_AbsentHintResolvesByContent ==
    \A c \in Calls :
        (StubRan(c) /\ start_line[c] = NoLine)
        => /\ diff_result[c].error # "start_line is required"
           /\ (/\ IsPatch(c) /\ HunksOf(c) # <<>>
               /\ \A i \in 1..Len(HunksOf(c)) :
                      ExactPlaces(ReadLines(c), HunksOf(c)[i]) # {})
              => diff_result[c].success

\* C12: the call returns the success report exactly when its write step went
\* through, and then the file holds the full content the stub returned.
C12_SuccessIffWritten ==
    \A c \in Calls :
        /\ Succeeded(c) <=> (Done(c) /\ WriteCompleted(c))
        /\ Succeeded(c) => fs[path[c]] = File(diff_result[c].content)

\* C12 witness: a call succeeded on a file that held something else, and the
\* file holds the stub's non-empty content.
C12_Witness ==
    /\ Succeeded(1)
    /\ diff_result[1].content # <<>>
    /\ fs0[path[1]].data # diff_result[1].content
    /\ fs[path[1]] = File(diff_result[1].content)

\* C13: the steps of a call are a prefix of existence check, open and read,
\* patch, open for writing and write, each taken at most once; a step that
\* failed is the last one (no retry), and the file is opened for writing only
\* after the stub returned success.
C13_StepsInOrder ==
    \A c \in Calls :
        /\ Len(trace[c]) <= Len(Canon)
        /\ \A i \in 1..Len(trace[c]) : trace[c][i].step = Canon[i]
        /\ \A i \in 1..(Len(trace[c]) - 1) : trace[c][i].ok
        /\ (trace[c] # <<>> /\ ~LastEvent(c).ok) => Done(c)
        /\ (Len(trace[c]) >= 5) => (StubRan(c) /\ diff_result[c].success)
        /\ (handle[c] = "w") => (StubRan(c) /\ diff_result[c].success)

\* C13 witness: a call went through all six steps and succeeded.
C13_Witness ==
    /\ Succeeded(1)
    /\ Len(trace[1]) = 6
    /\ trace[1][4] = Event("patch", TRUE, 0)

\* C14: a call on a path that does not exist returns the file-does-not-exist
\* report after the existence check alone (no read, no patch, no write), and
\* the path still does not exist.
C14_MissingFileReported ==
    \A c \in Calls :
        (pc[c] # "off" /\ ~fs0[path[c]].exists)
        => /\ fs[path[c]] = Absent
           /\ handle[c] = None
           /\ Done(c) => /\ report[c] = Report(R_NotExist, path[c], None)
                         /\ trace[c] = <<Event("exists", FALSE, 0)>>
                         /\ ~StubRan(c)

\* C14 witness: a call on a missing path has returned.
C14_Witness ==
    /\ Done(1)
    /\ ~fs0[path[1]].exists
    /\ report[1].template = R_NotExist

\* C15: when a call has returned it holds no file handle, whatever the exit
\* path; a handle is held only between an open and the end of its with block.
C15_NoHandleLeft ==
    \A c \in Calls :
        /\ Done(c) => handle[c] = None
        /\ handle[c] # None => pc[c] \in {"read", "write"}

\* C15 witness: a call returned after its read raised with the handle open.
C15_Witness ==
    /\ Done(1)
    /\ Len(trace[1]) = 3
    /\ LastEvent(1) = Event("read", FALSE, 0)
    /\ handle[1] = None

ChosenPlace(c, h) ==
    LET places == ExactPlaces(ReadLines(c), h)
        d(s) == Abs(s - Declared(c, h))
    IN  CHOOSE s \in places :
            \A t \in places : d(s) < d(t) \/ (d(s) = d(t) /\ s <= t)

\* C19: when a hunk matches at several places, the one closest to the
\* declared start is taken (the smaller of two equally close), and the hunk is
\* applied there.
C19_TieBreakClosestThenSmallest ==
    \A c \in Calls :
        (/\ StubRan(c) /\ IsPatch(c) /\ Len(HunksOf(c)) = 1
         /\ HintInFile(c)
         /\ Cardinality(ExactPlaces(ReadLines(c), HunksOf(c)[1])) >= 2)
        => LET h == HunksOf(c)[1]
           IN  /\ diff_result[c].success
               /\ diff_result[c].content =
                     Concat(ReplaceRange(ReadLines(c), ChosenPlace(c, h),
                                         Len(Expected(h)), Inserted(h)))

\* C20: a patch whose header declares a source line count that its body does
\* not have is rejected, and the file is not written.
C20_MalformedPatchRejected ==
    \A c \in Calls :
        (StubRan(c) /\ patch[c].malformed /\ HintInFile(c))
        => /\ ~diff_result[c].success
           /\ \A i \in 1..Len(trace[c]) : trace[c][i].step \notin {"open_w", "write"}
           /\ fs[path[c]] = fs0[path[c]]
-----------------------------------------------------------------------------
(* Claims about two calls *)

\* Whether step i of the call was taken and went through.
StepOk(c, i) == i <= Len(trace[c]) /\ trace[c][i].ok

\* The number of characters the call's write put into the file.
Written(c) == IF Len(trace[c]) >= 6 THEN trace[c][6].n ELSE 0

\* The result the stub gives the call when the call runs alone on the file
\* system as it was.
AloneResult(c) ==
    apply_diff_stub(UniversalNewlines(fs0[path[c]].data),
                    unescape_html_entities_mock(diff[c]), start_line[c])

\* The report of the call when it runs alone on the file system as it was,
\* with the same outcomes of its opens, read and write.
AloneReport(c) ==
    IF ~fs0[path[c]].exists THEN Report(R_NotExist, path[c], None)
    ELSE IF ~StepOk(c, 2) THEN Report(R_ReadFailed, path[c], "open")
    ELSE IF ~StepOk(c, 3) THEN Report(R_ReadFailed, path[c], "read")
    ELSE IF ~AloneResult(c).success THEN Report(R_DiffFailed, path[c], AloneResult(c).error)
    ELSE IF ~StepOk(c, 5) THEN Report(R_WriteFailed, path[c], "open")
    ELSE IF ~Encodable(AloneResult(c).content) THEN Report(R_WriteFailed, path[c], "encode")
    ELSE IF Written(c) = Len(AloneResult(c).content) THEN Report(R_Success, path[c], None)
    ELSE Report(R_WriteFailed, path[c], "write")

\* The file of the call when it runs alone, likewise.
AloneFile(c) ==
    IF /\ fs0[path[c]].exists /\ StepOk(c, 2) /\ StepOk(c, 3)
       /\ AloneResult(c).success /\ StepOk(c, 5)
    THEN IF Encodable(AloneResult(c).content)
         THEN File(SubSeq(AloneResult(c).content, 1, Written(c)))
         ELSE File(<<>>)
    ELSE fs0[path[c]]

\* C16: two calls on different paths do not affect each other: under every
\* interleaving, when both have returned, each call's report and each file's
\* content are those of the call running alone (one after the other).
C16_DifferentPathsIndependent ==
    (path[1] # path[2] /\ Done(1) /\ Done(2))
    => \A c \in Calls :
           /\ report[c] = AloneReport(c)
           /\ fs[path[c]] = AloneFile(c)

\* C16 witness: two calls on different paths with different diffs both
\* succeeded, and each file holds the content of its own call.
C16_Witness ==
    /\ path[1] # path[2]
    /\ Succeeded(1) /\ Succeeded(2)
    /\ diff[1] # diff[2]
    /\ fs[path[1]] # fs[path[2]]
    /\ fs[path[1]] = File(processed_diff[1])
    /\ fs[path[2]] = File(processed_diff[2])

C21_SuccessReportCarriesCount ==
    \A c \in Calls :
        (Succeeded(c) /\ IsPatch(c) /\ HunksOf(c) # <<>>)
        => /\ report[c].path = path[c]
           /\ report[c].detail # None

OutOfBounds(c) ==
    /\ start_line[c] # NoLine
    /\ \/ start_line[c][1] < 1
       \/ start_line[c][1] > Len(ReadLines(c)) + 1

\* C23: the stub fails with the out-of-bounds error exactly when a given
\* start_line is below 1 or above the number of lines of the original plus
\* one (the line after the last, the append position, is accepted); on that
\* failure the call reports it and neither opens the file for writing nor
\* writes it.
C23_OutOfBoundsExactly ==
    \A c \in Calls :
        StubRan(c) =>
            /\ (diff_result[c] = DiffApplicationResult(FALSE, <<>>, "Invalid start_line"))
               <=> OutOfBounds(c)
            /\ (start_line[c] # NoLine /\ ~OutOfBounds(c)) => diff_result[c].success
            /\ OutOfBounds(c) =>
                   /\ report[c] = Report(R_DiffFailed, path[c], "Invalid start_line")
                   /\ \A i \in 1..Len(trace[c]) : trace[c][i].step \notin {"open_w", "write"}
                   /\ fs[path[c]] = fs0[path[c]]

\* C23 witness: on a file of three lines a call with start_line 4, the append
\* position, succeeded.
C23_Witness ==
    /\ Succeeded(1)
    /\ Len(ReadLines(1)) = 3
    /\ start_line[1] = SomeLine(4)

\* C24 as stated: for two calls on the same path that both report success,
\* under every interleaving of their steps the file ends holding the content
\* computed by one of the two calls, never a mixture.
C24_SamePathNeverMixes ==
    (path[1] = path[2] /\ Succeeded(1) /\ Succeeded(2))
    => \E c \in Calls : fs[path[1]] = File(diff_result[c].content)

\* C24 as amended: for two calls on the same path that both report success,
\* when the second began after the first had returned, the file ends holding
\* the content computed by the second.
C24_SerializedLastWriterWins ==
    \A c, d \in Calls :
        (/\ c # d /\ path[c] = path[d]
         /\ Succeeded(c) /\ Succeeded(d)
         /\ d \in returned[c])
        => fs[path[c]] = File(diff_result[c].content)

\* C24 witness: call 2 began after call 1 had returned; both succeeded on the
\* same path, the first with the longer content, and the file holds the
\* content of the second.
C24_Witness ==
    /\ path[1] = path[2]
    /\ Succeeded(1) /\ Succeeded(2)
    /\ 1 \in returned[2]
    /\ Len(diff_result[1].content) > Len(diff_result[2].content)
    /\ Len(diff_result[2].content) > 0
    /\ fs[path[2]] = File(diff_result[2].content)

\* The character an entity stands for.
Decoded ==
    {<<Ent_lt, "<">>, <<Ent_gt, ">">>, <<Ent_amp, "&">>, <<Ent_quot, "\"">>,
     <<Ent_apos, "'">>}

RECURSIVE SinglePass(_)
\* One pass from left to right: an entity at the position read is replaced
\* by its character and the pass goes on after it; any other character is
\* copied. What a replacement produced is not read again.
SinglePass(s) ==
    IF s = <<>> THEN s
    ELSE LET here == {e \in Decoded : StartsWith(s, e[1])}
         IN  IF here = {} THEN <<Head(s)>> \o SinglePass(Tail(s))
             ELSE LET e == CHOOSE x \in here : TRUE
                  IN  <<e[2]>> \o SinglePass(SubSeq(s, Len(e[1]) + 1, Len(s)))

\* C25: unescape_html_entities_mock decodes each entity of its input at most
\* once: what it returns is the single left-to-right pass over the input
\* (so "&amp;quot;" gives "&quot;" and "&amp;lt;" gives "&lt;").
C25_EachEntityDecodedOnce ==
    ue_pc = "done" => ue_out = SinglePass(ue_text)

\* C26: when write_to_file_tool_func returns an error report, it has changed
\* nothing on disk: no file created or truncated, no directory created.
\* Stated for the calls that fail without any failure of the disk: those
\* given a content that UTF-8 cannot encode.
C26_ErrorChangesNothing ==
    (/\ wf_pc = "done"
     /\ wf_report.template = Wf_Error
     /\ wf_report.detail = "encode")
    => wf_fs = wf_fs0

\* The call was given a non-empty arguments string.
McpGiven == arguments.given /\ arguments.text # <<>>

\* The arguments string given is no JSON, or is JSON and no object.
McpInvalid ==
    /\ McpGiven
    /\ ~(JsonLoads(arguments.text).valid /\ JsonLoads(arguments.text).kind = "dict")

\* C27 as stated: the MCP tool is invoked at most once per call and only
\* after a non-empty arguments string has parsed as a JSON object; invalid
\* arguments give an error report and no invocation; the report is an error
\* report exactly when the arguments were invalid or the result has isError.
C27_InvokedOnlyAfterParsedObject ==
    /\ mcp_calls <= 1
    /\ mcp_calls = 1 => /\ McpGiven
                        /\ parsed_arguments.valid
                        /\ parsed_arguments.kind = "dict"
    /\ mcp_pc = "done" =>
           /\ McpInvalid => (mcp_report.error /\ mcp_calls = 0)
           /\ mcp_report.error <=> (McpInvalid \/ tool_result.isError)

\* C27 as amended: the MCP tool is invoked at most once per call; when a
\* non-empty arguments string is given, only after it has parsed as a JSON
\* object, and when none is given (None or the empty string), without any
\* parsing and with no arguments; invalid arguments give an error report and
\* no invocation; the report is an error report exactly when the arguments
\* were invalid or the result has isError.
C27_InvokedOnceAfterValidArguments ==
    /\ mcp_calls <= 1
    /\ mcp_calls = 1 => IF McpGiven
                        THEN parsed_arguments.valid /\ parsed_arguments.kind = "dict"
                        ELSE parsed_arguments = NotParsed
    /\ mcp_pc = "done" =>
           /\ McpInvalid => (mcp_report.error /\ mcp_calls = 0)
           /\ mcp_report.error <=> (McpInvalid \/ tool_result.isError)

\* C27 witness: a call without arguments has invoked get_user_info once, with
\* nothing parsed, and returned the report of a success.
C27_Witness ==
    /\ mcp_pc = "done"
    /\ arguments = NoStr
    /\ tool_name = "get_user_info"
    /\ mcp_calls = 1
    /\ parsed_arguments = NotParsed
    /\ mcp_report = McpReport(Mcp_Executed, FALSE)

\* C28: update_todo_list_tool_py is idempotent on its own output: the
\* checklist it emits, given to it again, is accepted and yields the same
\* checklist with the same items (content, status, id) in the same order; and
\* the list a call emits has exactly one item per input line that matches
\* the checklist pattern, in input order.
C28_IdempotentOnOutput ==
    /\ (td_pc = "done" /\ td_round = 2)
       => /\ td_report = Td_Updated
          /\ updated_md = td_first.md
          /\ normalized_todos = td_first.items
    /\ (td_pc = "done" /\ td_report = Td_Updated)
       => /\ Len(normalized_todos) = Len(MatchingLines(todos))
          /\ \A i \in 1..Len(normalized_todos) :
                 normalized_todos[i] = ItemOf(MatchingLines(todos)[i])

\* C28 witness: the tool was given a text that is not the checklist it then
\* emitted, of two items of different status and content; given that
\* checklist, it has emitted it again.
C28_Witness ==
    /\ td_pc = "done" /\ td_round = 2
    /\ td_first.todos # td_first.md
    /\ Len(td_first.items) = 2
    /\ td_first.items[1].status # td_first.items[2].status
    /\ td_first.items[1].content # td_first.items[2].content
    /\ updated_md = td_first.md

\* C29: attempt_completion_function called with an empty result returns the
\* missing-parameter error and never records the completion; called with a
\* non-empty result it records the completion exactly once, and has done so
\* before it returns the completion report.
C29_CompletionRecordedOnce ==
    /\ ac_captured <= 1
    /\ result = <<>> => ac_captured = 0
    /\ (ac_pc = "done" /\ result = <<>>) => ac_report = AcReport(Ac_MissingParam, <<>>, NoStr)
    /\ (ac_pc = "done" /\ result # <<>>)
       => /\ ac_captured = 1
          /\ ac_report.template = Ac_Completed
          /\ ac_report.result = result
    /\ ac_report.template = Ac_Completed => ac_captured = 1

\* C29 witness: a call whose result is one space, which is not empty, has
\* recorded the completion once and returned the completion report with the
\* command it was given.
C29_Witness ==
    /\ ac_pc = "done"
    /\ result = <<" ">>
    /\ command = SomeStr(<<"g", "o">>)
    /\ ac_captured = 1
    /\ ac_report = AcReport(Ac_Completed, <<" ">>, SomeStr(<<"g", "o">>))

\* C30: fetch_instructions_tool_func returns stored instruction text exactly
\* when the lower-cased task is create_file, read_file_example or
\* debug_issue, and then the text stored for it; for every other task, the
\* name "default" included, it returns an error report, and never the
\* default placeholder text.
C30_StoredTextIffKnownTask ==
    fi_pc = "done" =>
        /\ ~fi_report.error <=> Lower(task) \in {K_create_file, K_read_file_example,
                                                  K_debug_issue}
        /\ ~fi_report.error => fi_report.text = instructions_db(Lower(task))
        /\ fi_report.error => fi_report.text = Fi_NotFound
        /\ fi_report.text # I_default

\* C30 witness: the task Create_File, which is a key only when lower-cased,
\* was answered with the text stored for create_file.
C30_Witness ==
    /\ fi_pc = "done"
    /\ task # K_create_file
    /\ Lower(task) = K_create_file
    /\ fi_report = FiReport(FALSE, I_create_file)

=============================================================================
